---- MODULE Spec2Model ----
(***************************************************************************)
(* The student roster bot: the Database class (database.py) over one       *)
(* students table, and the handlers of bot.py behind the two               *)
(* ConversationHandlers and the plain command handlers that main()         *)
(* registers.  One step of the model is one update processed to the end    *)
(* (the transport delivers one update at a time).                          *)
(*                                                                         *)
(* Texts are sequences of one-character strings.  Every chat is a private  *)
(* chat, so a conversation key (chat_id, user_id) is the user.  The column *)
(* created_at is left out: no statement of database.py reads or changes it *)
(* after the insert.                                                       *)
(***************************************************************************)
EXTENDS Integers, Sequences, FiniteSets, TLC

\* ------------------------------------------------------------- bounds
\* The table holds at most MaxRows rows: an insert beyond that fails, as
\* any statement may.
MaxRows == 2
\* The longest query the search contract is checked with.
MaxQueryLen == 2

\* Two users.
Owners == {1, 2}

Digits == {"1", "2"}
Alphabet == Digits \cup {"A"}
\* The characters LIKE reads as wildcards.
Wildcards == {"%", "_"}

RECURSIVE SeqsUpTo(_, _)
SeqsUpTo(S, n) ==
    IF n = 0 THEN {<<>>}
    ELSE LET shorter == SeqsUpTo(S, n - 1)
         IN  shorter \cup {Append(s, c) : s \in {x \in shorter : Len(x) = n - 1}, c \in S}

\* The message texts: one character each (a message text is never empty).
Texts == {<<c>> : c \in Alphabet}
\* The query strings the search contract is checked with.
Queries == SeqsUpTo(Alphabet \cup Wildcards, MaxQueryLen)
\* The argument strings /find is sent with; empty when no argument is given.
FindArgs == Texts \cup {<<>>, <<"%">>}

\* ------------------------------------------------------------- constants
DEFAULT_SORT_ORDER == "student_number"
WAITING_FOR_NUMBER == 0
WAITING_FOR_NAME == 1
WAITING_FOR_DELETE_IDENTIFIER == 4
WAITING_FOR_DELETE_CONFIRMATION_NUMBER == 5
END == -1

allowed_orders == {"student_number", "student_name"}
ButtonData == {"list_sort_student_number", "list_sort_student_name", "list_sort_created_at"}

\* ------------------------------------------------------------- strings
\* str.isdigit(): non-empty and every character a digit.
isdigit(t) == Len(t) > 0 /\ \A i \in 1..Len(t) : t[i] \in Digits

LowerChar(c) == IF c = "A" THEN "a" ELSE c

\* str.lower() and SQL LOWER() (they agree on this alphabet).
lower(t) == [i \in 1..Len(t) |-> LowerChar(t[i])]

Tail2(s, k) == SubSeq(s, k, Len(s))

\* SQL LIKE: in the pattern, % matches any run of characters and _ matches
\* any one character; every other character matches itself.
RECURSIVE Like(_, _)
Like(s, p) ==
    IF p = <<>> THEN s = <<>>
    ELSE IF Head(p) = "%"
         THEN \E k \in 1..(Len(s) + 1) : Like(Tail2(s, k), Tail(p))
         ELSE /\ s # <<>>
              /\ (Head(p) = "_" \/ Head(p) = Head(s))
              /\ Like(Tail(s), Tail(p))

\* Plain substring test: the reference the search contract is stated in.
Contains(s, q) ==
    \E k \in 0..(Len(s) - Len(q)) : SubSeq(s, k + 1, k + Len(q)) = q

\* ------------------------------------------------------------- state
VARIABLES
    students,     \* the students table: a set of rows
    add_conv,     \* add_conv_handler's conversation state, per user
    delete_conv,  \* delete_conv_handler's conversation state, per user
    user_data,    \* context.user_data, per user: a dict (key -> value)
    reply         \* what the last update a conversation handled produced: the
                  \* reply_text call that ran, or "exception" when the handler raised

vars == <<students, add_conv, delete_conv, user_data, reply>>

Row(u, n, name) == [user_id |-> u, student_number |-> n, student_name |-> name]

\* dict helpers
Has(d, k) == k \in DOMAIN d
Put(d, k, v) == [x \in DOMAIN d \cup {k} |-> IF x = k THEN v ELSE d[x]]
Del(d, k) == [x \in DOMAIN d \ {k} |-> d[x]]
Get(d, k, default) == IF Has(d, k) THEN d[k] ELSE default

\* ------------------------------------------------------------- Database
\* Mutant: a plain INSERT into a table without the primary key.
add_student_no_conflict(table, user_id, number, name) ==
    table \cup {Row(user_id, number, name)}

\* INSERT ... ON CONFLICT (user_id, student_number) DO UPDATE SET student_name
add_student(table, user_id, number, name) ==
    {r \in table : ~(r.user_id = user_id /\ r.student_number = number)}
        \cup {Row(user_id, number, name)}

\* Mutant: the SELECT of find_students without the user_id condition.
find_students_any_user(table, user_id, query) ==
    {r \in table :
        \/ r.student_number = query
        \/ Like(lower(r.student_name), <<"%">> \o lower(query) \o <<"%">>)}

\* The rows find_students selects (the ORDER BY puts them in a list).
find_students(table, user_id, query) ==
    {r \in table :
        /\ r.user_id = user_id
        /\ \/ r.student_number = query
           \/ Like(lower(r.student_name), <<"%">> \o lower(query) \o <<"%">>)}

\* order_by as it reaches the query text.
coerce_order(order_by) ==
    IF order_by \notin allowed_orders THEN "student_number" ELSE order_by

\* The place of a character in the collation of the TEXT columns.
CharRank(c) == IF c = "1" THEN 1 ELSE IF c = "2" THEN 2 ELSE 3

\* a < b as the ORDER BY of a TEXT column compares two values.
RECURSIVE TextLess(_, _)
TextLess(a, b) ==
    IF b = <<>> THEN FALSE
    ELSE IF a = <<>> THEN TRUE
    ELSE IF Head(a) = Head(b) THEN TextLess(Tail(a), Tail(b))
    ELSE CharRank(Head(a)) < CharRank(Head(b))

\* SELECT student_number, student_name: the columns of a fetched row.
Selected(r) == [student_number |-> r.student_number, student_name |-> r.student_name]

\* ORDER BY column: the lists the rows can come back in, smallest value of
\* the column first; rows with equal values come in either order.
RECURSIVE OrderBy(_, _)
OrderBy(rows, column) ==
    IF rows = {} THEN {<<>>}
    ELSE UNION {{<<Selected(r)>> \o rest : rest \in OrderBy(rows \ {r}, column)} :
                    r \in {x \in rows : \A y \in rows : ~TextLess(y[column], x[column])}}

\* Mutant: the SELECT without the user_id condition.
get_students_any_user(table, user_id, order_by) ==
    OrderBy(table, coerce_order(order_by))

\* The lists get_students can return.
get_students(table, user_id, order_by) ==
    OrderBy({r \in table : r.user_id = user_id}, coerce_order(order_by))

\* Mutant: the DELETE without the user_id condition.
delete_student_any_user(table, user_id, student_number) ==
    {r \in table : r.student_number # student_number}

\* DELETE ... WHERE user_id = %s AND student_number = %s: the table afterwards
delete_student(table, user_id, student_number) ==
    {r \in table : ~(r.user_id = user_id /\ r.student_number = student_number)}

\* delete_student's return value: deleted_count > 0
delete_student_result(table, user_id, student_number) ==
    Cardinality({r \in table : r.user_id = user_id /\ r.student_number = student_number}) > 0

\* ------------------------------------------------------------- Init
Init ==
    /\ students = {}
    /\ add_conv = [o \in Owners |-> END]
    /\ delete_conv = [o \in Owners |-> END]
    /\ user_data = [o \in Owners |-> <<>>]
    /\ reply = "none"

\* ------------------------------------------------------------- handlers
\* A handler acts on students, user_data and reply; ret is the state it
\* returns to its ConversationHandler, or RAISED when it raises: then the
\* Application logs the exception and the conversation keeps its state.
RAISED == END - 1
Returns == {END, WAITING_FOR_NUMBER, WAITING_FOR_NAME, WAITING_FOR_DELETE_IDENTIFIER,
            WAITING_FOR_DELETE_CONFIRMATION_NUMBER, RAISED}

\* The handlers outside the conversations only send a message.
start(o) == UNCHANGED vars

help_command(o) == UNCHANGED vars

hello(o) == UNCHANGED vars

add_start(o, ret) ==
    /\ reply' = "enter_number"
    /\ ret = WAITING_FOR_NUMBER
    /\ UNCHANGED <<students, user_data>>

\* Mutant: the number is stored without the isdigit check.
handle_number_unchecked(o, number, ret) ==
    /\ user_data' = [user_data EXCEPT ![o] = Put(@, "temp_number", number)]
    /\ reply' = "enter_name"
    /\ ret = WAITING_FOR_NAME
    /\ UNCHANGED students

handle_number(o, number, ret) ==
    IF ~isdigit(number)
    THEN /\ reply' = "enter_valid_number"
         /\ ret = WAITING_FOR_NUMBER
         /\ UNCHANGED <<students, user_data>>
    ELSE /\ user_data' = [user_data EXCEPT ![o] = Put(@, "temp_number", number)]
         /\ reply' = "enter_name"
         /\ ret = WAITING_FOR_NAME
         /\ UNCHANGED students

\* Mutant: temp_number is read with get and stays in user_data.
handle_name_keeps_number(o, name, ret) ==
    IF ~Has(user_data[o], "temp_number")
    THEN /\ ret = RAISED
         /\ reply' = "exception"
         /\ UNCHANGED <<students, user_data>>
    ELSE LET number == user_data[o]["temp_number"]
         IN  /\ UNCHANGED user_data
             /\ \/ /\ students' = add_student(students, o, number, name)
                   /\ Cardinality(students') <= MaxRows
                   /\ reply' = "added"
                   /\ ret = END
                \/ /\ ret = RAISED
                   /\ reply' = "exception"
                   /\ UNCHANGED students

handle_name(o, name, ret) ==
    IF ~Has(user_data[o], "temp_number")
    THEN \* pop("temp_number") raises KeyError
         /\ ret = RAISED
         /\ reply' = "exception"
         /\ UNCHANGED <<students, user_data>>
    ELSE LET number == user_data[o]["temp_number"]
         IN  /\ user_data' = [user_data EXCEPT ![o] = Del(@, "temp_number")]
             /\ \/ /\ students' = add_student(students, o, number, name)
                   /\ Cardinality(students') <= MaxRows
                   /\ reply' = "added"
                   /\ ret = END
                \/ \* db.add_student raises
                   /\ ret = RAISED
                   /\ reply' = "exception"
                   /\ UNCHANGED students

\* Mutant: /cancel ends the conversation and leaves user_data alone.
cancel_keeps_user_data(o, ret) ==
    /\ reply' = "cancelled"
    /\ ret = END
    /\ UNCHANGED <<students, user_data>>

cancel(o, ret) ==
    /\ user_data' = [user_data EXCEPT ![o] = Del(Del(@, "temp_number"), "delete_candidates")]
    /\ reply' = "cancelled"
    /\ ret = END
    /\ UNCHANGED students

\* The list is rendered from get_students in the remembered order; when
\* get_students raises nothing is sent.
list_students(o) ==
    LET sort_order == Get(user_data[o], "list_sort_order", DEFAULT_SORT_ORDER)
    IN  /\ UNCHANGED vars
        /\ \E students_list \in get_students(students, o, sort_order) : TRUE

\* The matches of find_students are sent; when it raises nothing is sent.
find_student(o, query) == UNCHANGED vars

current_sort_order(ud) == Get(ud, "list_sort_order", DEFAULT_SORT_ORDER)

\* The order the pressed button asks for; a payload that names neither
\* button keeps the current one.
new_sort_order(ud, callback_data) ==
    IF callback_data = "list_sort_student_number" THEN "student_number"
    ELSE IF callback_data = "list_sort_student_name" THEN "student_name"
    ELSE current_sort_order(ud)

\* Mutant: no early return when the order did not change.
sort_order_changed_always(ud, callback_data) == TRUE

\* Whether the handler goes on past its early return: stores the order,
\* calls get_students and edits the message.
sort_order_changed(ud, callback_data) ==
    new_sort_order(ud, callback_data) # current_sort_order(ud)

\* Mutant: the payload itself is stored as the order.
list_button_user_data_raw(ud, callback_data) ==
    Put(ud, "list_sort_order", callback_data)

\* Mutant: the new order is stored in a fresh dict.
list_button_user_data_fresh(ud, callback_data) ==
    IF sort_order_changed(ud, callback_data)
    THEN [k \in {"list_sort_order"} |-> new_sort_order(ud, callback_data)]
    ELSE ud

\* The owner's user_data when the handler returns.
list_button_user_data(ud, callback_data) ==
    IF sort_order_changed(ud, callback_data)
    THEN Put(ud, "list_sort_order", new_sort_order(ud, callback_data))
    ELSE ud

\* The order is stored before get_students(user_id, new_sort_order) is
\* called, so it stays stored when get_students raises and the message is
\* not edited.
list_button_callback(o, callback_data) ==
    /\ user_data' = [user_data EXCEPT ![o] = list_button_user_data(@, callback_data)]
    /\ UNCHANGED <<students, add_conv, delete_conv, reply>>

delete_start(o, ret) ==
    /\ reply' = "enter_identifier"
    /\ ret = WAITING_FOR_DELETE_IDENTIFIER
    /\ UNCHANGED <<students, user_data>>

\* Mutant: with any match, the first one is deleted at once.
handle_delete_identifier_first_match(o, identifier, ret) ==
    \/ /\ ret = RAISED
       /\ reply' = "exception"
       /\ UNCHANGED <<students, user_data>>
    \/ LET results == find_students(students, o, identifier)
       IN  IF results = {}
           THEN /\ reply' = "not_found"
                /\ ret = END
                /\ UNCHANGED <<students, user_data>>
           ELSE LET student_to_delete == CHOOSE r \in results : TRUE
                    student_number == student_to_delete.student_number
                IN  /\ students' = delete_student(students, o, student_number)
                    /\ reply' = "deleted"
                    /\ ret = END
                    /\ UNCHANGED user_data

handle_delete_identifier(o, identifier, ret) ==
    \/ \* db.find_students raises
       /\ ret = RAISED
       /\ reply' = "exception"
       /\ UNCHANGED <<students, user_data>>
    \/ LET results == find_students(students, o, identifier)
       IN  IF results = {}
           THEN /\ reply' = "not_found"
                /\ ret = END
                /\ UNCHANGED <<students, user_data>>
           ELSE IF Cardinality(results) = 1
           THEN LET student_to_delete == CHOOSE r \in results : TRUE
                    student_number == student_to_delete.student_number
                IN  \/ /\ students' = delete_student(students, o, student_number)
                       /\ reply' = IF delete_student_result(students, o, student_number)
                                 THEN "deleted" ELSE "could_not_delete"
                       /\ ret = END
                       /\ UNCHANGED user_data
                    \/ \* db.delete_student raises
                       /\ ret = RAISED
                       /\ reply' = "exception"
                       /\ UNCHANGED <<students, user_data>>
           ELSE /\ user_data' =
                      [user_data EXCEPT ![o] =
                          Put(@, "delete_candidates",
                              [n \in {r.student_number : r \in results} |->
                                  (CHOOSE r \in results : r.student_number = n).student_name])]
                /\ reply' = "multiple_found"
                /\ ret = WAITING_FOR_DELETE_CONFIRMATION_NUMBER
                /\ UNCHANGED students

\* Mutant: any digit string is deleted, offered or not.
handle_delete_confirmation_number_any(o, number_to_delete, ret) ==
    IF ~isdigit(number_to_delete)
    THEN /\ reply' = "not_a_number"
         /\ ret = WAITING_FOR_DELETE_CONFIRMATION_NUMBER
         /\ UNCHANGED <<students, user_data>>
    ELSE /\ students' = delete_student(students, o, number_to_delete)
         /\ reply' = IF delete_student_result(students, o, number_to_delete)
                     THEN "deleted_confirmed" ELSE "could_not_delete_confirmed"
         /\ user_data' = [user_data EXCEPT ![o] = Del(@, "delete_candidates")]
         /\ ret = END

\* Mutant: the candidates are not cleaned up after the delete.
handle_delete_confirmation_number_no_cleanup(o, number_to_delete, ret) ==
    LET delete_candidates == Get(user_data[o], "delete_candidates", <<>>)
    IN  IF ~isdigit(number_to_delete)
        THEN /\ reply' = "not_a_number"
             /\ ret = WAITING_FOR_DELETE_CONFIRMATION_NUMBER
             /\ UNCHANGED <<students, user_data>>
        ELSE IF number_to_delete \notin DOMAIN delete_candidates
        THEN /\ reply' = "not_in_list"
             /\ ret = WAITING_FOR_DELETE_CONFIRMATION_NUMBER
             /\ UNCHANGED <<students, user_data>>
        ELSE /\ students' = delete_student(students, o, number_to_delete)
             /\ reply' = "deleted_confirmed"
             /\ ret = END
             /\ UNCHANGED user_data

handle_delete_confirmation_number(o, number_to_delete, ret) ==
    LET delete_candidates == Get(user_data[o], "delete_candidates", <<>>)
    IN  IF ~isdigit(number_to_delete)
        THEN /\ reply' = "not_a_number"
             /\ ret = WAITING_FOR_DELETE_CONFIRMATION_NUMBER
             /\ UNCHANGED <<students, user_data>>
        ELSE IF number_to_delete \notin DOMAIN delete_candidates
        THEN /\ reply' = "not_in_list"
             /\ ret = WAITING_FOR_DELETE_CONFIRMATION_NUMBER
             /\ UNCHANGED <<students, user_data>>
        ELSE \/ /\ students' = delete_student(students, o, number_to_delete)
                /\ reply' = IF delete_student_result(students, o, number_to_delete)
                          THEN "deleted_confirmed" ELSE "could_not_delete_confirmed"
                /\ user_data' = [user_data EXCEPT ![o] = Del(@, "delete_candidates")]
                /\ ret = END
             \/ \* db.delete_student raises
                /\ ret = RAISED
                /\ reply' = "exception"
                /\ UNCHANGED <<students, user_data>>

\* ------------------------------------------------------------- dispatch
\* main(): the handlers of group 0 in registration order; the first one
\* whose check_update accepts the update handles it, the rest are skipped.
\* A ConversationHandler with no conversation for the user accepts only its
\* entry point; in a state it accepts that state's handlers, then its
\* fallbacks (allow_reentry is off).

\* The conversation state after the handler returned ret.
update_state(conv, o, ret) == IF ret = RAISED THEN conv ELSE [conv EXCEPT ![o] = ret]

Ignored == UNCHANGED vars

CmdStart(o) == start(o)

CmdHelp(o) == help_command(o)

CmdHello(o) == hello(o)

CmdAdd(o) ==
    IF add_conv[o] = END
    THEN \E ret \in Returns :
            /\ add_conv' = update_state(add_conv, o, ret)
            /\ UNCHANGED delete_conv
            /\ add_start(o, ret)
    ELSE Ignored

CmdDelete(o) ==
    IF delete_conv[o] = END
    THEN \E ret \in Returns :
            /\ delete_conv' = update_state(delete_conv, o, ret)
            /\ UNCHANGED add_conv
            /\ delete_start(o, ret)
    ELSE Ignored

CmdCancel(o) ==
    IF add_conv[o] # END
    THEN \E ret \in Returns :
            /\ add_conv' = update_state(add_conv, o, ret)
            /\ UNCHANGED delete_conv
            /\ cancel(o, ret)
    ELSE IF delete_conv[o] # END
    THEN \E ret \in Returns :
            /\ delete_conv' = update_state(delete_conv, o, ret)
            /\ UNCHANGED add_conv
            /\ cancel(o, ret)
    ELSE Ignored

\* A text message that is not a command.
Text(o, t) ==
    IF add_conv[o] = WAITING_FOR_NUMBER
    THEN \E ret \in Returns :
            /\ add_conv' = update_state(add_conv, o, ret)
            /\ UNCHANGED delete_conv
            /\ handle_number(o, t, ret)
    ELSE IF add_conv[o] = WAITING_FOR_NAME
    THEN \E ret \in Returns :
            /\ add_conv' = update_state(add_conv, o, ret)
            /\ UNCHANGED delete_conv
            /\ handle_name(o, t, ret)
    ELSE IF delete_conv[o] = WAITING_FOR_DELETE_IDENTIFIER
    THEN \E ret \in Returns :
            /\ delete_conv' = update_state(delete_conv, o, ret)
            /\ UNCHANGED add_conv
            /\ handle_delete_identifier(o, t, ret)
    ELSE IF delete_conv[o] = WAITING_FOR_DELETE_CONFIRMATION_NUMBER
    THEN \E ret \in Returns :
            /\ delete_conv' = update_state(delete_conv, o, ret)
            /\ UNCHANGED add_conv
            /\ handle_delete_confirmation_number(o, t, ret)
    ELSE Ignored

CmdList(o) == list_students(o)

CmdFind(o, query) == find_student(o, query)

Button(o, callback_data) == list_button_callback(o, callback_data)

\* Every update except the presses of the sort buttons.
NextConv ==
    \/ \E o \in Owners : CmdStart(o)
    \/ \E o \in Owners : CmdHelp(o)
    \/ \E o \in Owners : CmdHello(o)
    \/ \E o \in Owners : CmdAdd(o)
    \/ \E o \in Owners : CmdDelete(o)
    \/ \E o \in Owners : CmdCancel(o)
    \/ \E o \in Owners, t \in Texts : Text(o, t)
    \/ \E o \in Owners : CmdList(o)
    \/ \E o \in Owners, q \in FindArgs : CmdFind(o, q)

Next ==
    \/ NextConv
    \/ \E o \in Owners, d \in ButtonData : Button(o, d)

\* The bot: every update.
Spec == Init /\ [][Next]_vars

\* The bot while no sort button is pressed: the sort order, which only the
\* buttons write and only /list reads, stays unset.
SpecConv == Init /\ [][NextConv]_vars

\* ------------------------------------------------------------- claims
Idle(o) == add_conv[o] = END /\ delete_conv[o] = END

RowsOf(table, o) == {r \in table : r.user_id = o}

KeyRows(table, o, n) == {r \in table : r.user_id = o /\ r.student_number = n}

UniqueKey(table) ==
    \A r1, r2 \in table :
        (r1.user_id = r2.user_id /\ r1.student_number = r2.student_number) => r1 = r2

\* C1: from idle, /add, then a digit string n, then a text t move the owner
\* idle -> awaiting_number -> awaiting_name -> idle; the first two steps
\* leave the table alone, and the last one (when the upsert does not fail)
\* leaves exactly one row with key (o, n), named t, and no pending number.
C1_AddFlow ==
    [][\A o \in Owners :
        /\ (Idle(o) /\ CmdAdd(o)) =>
              /\ add_conv'[o] = WAITING_FOR_NUMBER
              /\ delete_conv'[o] = END
              /\ students' = students
              /\ user_data' = user_data
        /\ (add_conv[o] = WAITING_FOR_NUMBER /\ delete_conv[o] = END) =>
              \A t \in Texts :
                  (isdigit(t) /\ Text(o, t)) =>
                      /\ add_conv'[o] = WAITING_FOR_NAME
                      /\ delete_conv'[o] = END
                      /\ students' = students
                      /\ Has(user_data'[o], "temp_number")
                      /\ user_data'[o]["temp_number"] = t
        /\ (add_conv[o] = WAITING_FOR_NAME /\ delete_conv[o] = END
                /\ Has(user_data[o], "temp_number") /\ reply' # "exception") =>
              \A t \in Texts :
                  Text(o, t) =>
                      LET n == user_data[o]["temp_number"]
                      IN  /\ Idle(o)'
                          /\ KeyRows(students', o, n) = {Row(o, n, t)}
                          /\ Cardinality(KeyRows(students', o, n)) = 1
                          /\ ~Has(user_data'[o], "temp_number")
    ]_vars

C1_Witness ==
    \E o \in Owners, r \in students :
        /\ reply = "added"
        /\ r.user_id = o
        /\ Idle(o)
        /\ ~Has(user_data[o], "temp_number")

\* C2: /cancel from any non-idle state returns the owner to idle with no
\* pending number and no delete candidates.
C2_CancelToIdle ==
    [][\A o \in Owners :
        (~Idle(o) /\ CmdCancel(o)) =>
            /\ Idle(o)'
            /\ ~Has(user_data'[o], "temp_number")
            /\ ~Has(user_data'[o], "delete_candidates")
    ]_vars

\* C3: a conversation step whose store operation fails leaves the owner's
\* mode, pending number and delete candidates as they were.
C3_FailureKeepsState ==
    [][\A o \in Owners, t \in Texts :
        (reply' = "exception" /\ Text(o, t)) =>
            /\ add_conv'[o] = add_conv[o]
            /\ delete_conv'[o] = delete_conv[o]
            /\ user_data'[o] = user_data[o]
    ]_vars

\* C4: in awaiting_delete_identifier the outcome (when no store operation
\* fails) is decided by the number of rows the search returns: none, the
\* table is unchanged and the owner is idle; one, that row is deleted and the
\* owner is idle; two or more, nothing is deleted, the candidates are
\* exactly the matched rows (number -> name) and the owner awaits the
\* confirmation.
C4_DeleteIdentifier ==
    [][\A o \in Owners, t \in Texts :
        (add_conv[o] = END /\ delete_conv[o] = WAITING_FOR_DELETE_IDENTIFIER
            /\ reply' # "exception" /\ Text(o, t)) =>
            LET matches == find_students(students, o, t)
            IN  /\ Cardinality(matches) = 0 =>
                    (students' = students /\ Idle(o)' /\ user_data' = user_data)
                /\ Cardinality(matches) = 1 =>
                    (students' = students \ matches /\ Idle(o)' /\ user_data' = user_data)
                /\ Cardinality(matches) >= 2 =>
                    /\ students' = students
                    /\ delete_conv'[o] = WAITING_FOR_DELETE_CONFIRMATION_NUMBER
                    /\ add_conv'[o] = END
                    /\ Has(user_data'[o], "delete_candidates")
                    /\ LET c == user_data'[o]["delete_candidates"]
                       IN  /\ DOMAIN c = {r.student_number : r \in matches}
                           /\ \A r \in matches : c[r.student_number] = r.student_name
    ]_vars

C4_Witness ==
    \E o \in Owners :
        /\ reply = "multiple_found"
        /\ delete_conv[o] = WAITING_FOR_DELETE_CONFIRMATION_NUMBER
        /\ Has(user_data[o], "delete_candidates")
        /\ Cardinality(DOMAIN user_data[o]["delete_candidates"]) >= 2

C7_NumberReprompt ==
    [][\A o \in Owners, t \in Texts :
        (add_conv[o] = WAITING_FOR_NUMBER /\ ~isdigit(t) /\ Text(o, t)) =>
            /\ add_conv'[o] = WAITING_FOR_NUMBER
            /\ ~Has(user_data'[o], "temp_number")
            /\ user_data' = user_data
            /\ delete_conv' = delete_conv
            /\ students' = students
    ]_vars

C7_Witness ==
    \E o \in Owners :
        /\ reply = "enter_valid_number"
        /\ add_conv[o] = WAITING_FOR_NUMBER
        /\ ~Has(user_data[o], "temp_number")

\* C8: the table never holds two rows with the same (user_id, number); an
\* upsert of a key leaves one row for it with the new name, every other row
\* as it was, and adds no row when the key was there; two upserts of a key
\* leave one row with the later name.
C8_Upsert ==
    /\ UniqueKey(students)
    /\ \A o \in Owners, n \in Texts, x \in Texts :
          LET t1 == add_student(students, o, n, x)
          IN  /\ KeyRows(t1, o, n) = {Row(o, n, x)}
              /\ t1 \ KeyRows(t1, o, n) = students \ KeyRows(students, o, n)
              /\ (KeyRows(students, o, n) # {} => Cardinality(t1) = Cardinality(students))
              /\ \A y \in Texts \ {x} :
                    LET t2 == add_student(t1, o, n, y)
                    IN  /\ KeyRows(t2, o, n) = {Row(o, n, y)}
                        /\ Cardinality(t2) = Cardinality(t1)

C8_Witness ==
    \E r1, r2 \in students :
        /\ reply = "added"
        /\ r1 # r2
        /\ r1.student_number = r2.student_number

\* C9: delete of a key that is not in the table returns false and leaves the
\* table unchanged; delete of a key that is there returns true and removes
\* that row only, and a second delete of the key returns false.
C9_Delete ==
    \A o \in Owners, n \in Texts :
        LET t1 == delete_student(students, o, n)
        IN  IF KeyRows(students, o, n) = {}
            THEN /\ ~delete_student_result(students, o, n)
                 /\ t1 = students
            ELSE /\ delete_student_result(students, o, n)
                 /\ t1 = students \ KeyRows(students, o, n)
                 /\ Cardinality(t1) = Cardinality(students) - 1
                 /\ ~delete_student_result(t1, o, n)
                 /\ delete_student(t1, o, n) = t1

C9_Witness ==
    \E o1, o2 \in Owners, n \in Texts :
        /\ o1 # o2
        /\ reply = "deleted"
        /\ KeyRows(students, o1, n) = {}
        /\ KeyRows(students, o2, n) # {}

\* C10: search returns exactly the owner's rows whose number equals the
\* query or whose name contains the query, ignoring case, with the query's
\* characters taken literally.
C10_SearchLiteral ==
    \A o \in Owners, q \in Queries :
        find_students(students, o, q) =
            {r \in RowsOf(students, o) :
                \/ r.student_number = q
                \/ Contains(lower(r.student_name), lower(q))}

\* C12: for either sort field, the list of an owner holds every row of that
\* owner and no row of another owner, each once, in ascending order of the
\* field; an owner without rows gets the empty list.
C12_List ==
    \A o \in Owners, order_by \in allowed_orders :
        LET lists == get_students(students, o, order_by)
            mine == {Selected(r) : r \in RowsOf(students, o)}
        IN  /\ lists # {}
            /\ \A l \in lists :
                  /\ Len(l) = Cardinality(RowsOf(students, o))
                  /\ {l[i] : i \in 1..Len(l)} = mine
                  /\ \A i, j \in 1..Len(l) :
                        i < j => ~TextLess(l[j][order_by], l[i][order_by])
            /\ (RowsOf(students, o) = {} => lists = {<<>>})

C12_Witness ==
    \E o \in Owners : \E r1, r2 \in RowsOf(students, o) :
        /\ TextLess(r1.student_number, r2.student_number)
        /\ TextLess(r2.student_name, r1.student_name)

\* C11: a press of the button of the order already in use changes nothing:
\* the remembered order stays, get_students is not called and the message is
\* not edited; a press of the other button stores that order and renders
\* the list in it; a second press of the same button changes nothing more.
C11_SortButton ==
    \A o \in Owners, d \in {"list_sort_student_number", "list_sort_student_name"} :
        LET ud == user_data[o]
            current == Get(ud, "list_sort_order", DEFAULT_SORT_ORDER)
            selected == IF d = "list_sort_student_number" THEN "student_number"
                        ELSE "student_name"
            once == list_button_user_data(ud, d)
        IN  /\ selected = current =>
                  /\ once = ud
                  /\ ~sort_order_changed(ud, d)
            /\ selected # current =>
                  /\ Has(once, "list_sort_order")
                  /\ once["list_sort_order"] = selected
                  /\ Del(once, "list_sort_order") = Del(ud, "list_sort_order")
                  /\ sort_order_changed(ud, d)
                  /\ new_sort_order(ud, d) = selected
            /\ list_button_user_data(once, d) = once
            /\ ~sort_order_changed(once, d)

C11_Witness ==
    \E o \in Owners :
        /\ Has(user_data[o], "list_sort_order")
        /\ user_data[o]["list_sort_order"] = "student_name"

\* What the bot holds for one owner.
OwnerState(o) == <<RowsOf(students, o), add_conv[o], delete_conv[o], user_data[o]>>

\* Some update sent by owner o.
Event(o) ==
    \/ CmdStart(o) \/ CmdHelp(o) \/ CmdHello(o)
    \/ CmdAdd(o) \/ CmdDelete(o) \/ CmdCancel(o)
    \/ \E t \in Texts : Text(o, t)
    \/ CmdList(o)
    \/ \E q \in FindArgs : CmdFind(o, q)
    \/ \E d \in ButtonData : Button(o, d)

\* Every store operation of an owner gives on the whole table what it gives
\* on that owner's rows alone, and leaves the rows of the others in place.
StoreLocal ==
    \A o \in Owners :
        LET mine == RowsOf(students, o)
            others == students \ mine
        IN  /\ \A q \in FindArgs : find_students(students, o, q) = find_students(mine, o, q)
            /\ \A order_by \in allowed_orders :
                  get_students(students, o, order_by) = get_students(mine, o, order_by)
            /\ \A n \in Texts :
                  /\ delete_student(students, o, n) = delete_student(mine, o, n) \cup others
                  /\ delete_student_result(students, o, n) = delete_student_result(mine, o, n)
                  /\ \A x \in Texts :
                        add_student(students, o, n, x) = add_student(mine, o, n, x) \cup others

C14_SingleMode ==
    \A o \in Owners : add_conv[o] = END \/ delete_conv[o] = END

\* C15: while an owner awaits the delete confirmation the candidates are
\* stored and there are at least two of them.
C15_CandidatesKept ==
    \A o \in Owners :
        delete_conv[o] = WAITING_FOR_DELETE_CONFIRMATION_NUMBER =>
            /\ Has(user_data[o], "delete_candidates")
            /\ Cardinality(DOMAIN user_data[o]["delete_candidates"]) >= 2

\* C16: while an owner awaits the name the pending number is stored and is
\* a digit string, and it is stored in no other state of the add flow.
C16_PendingNumber ==
    \A o \in Owners :
        /\ add_conv[o] = WAITING_FOR_NAME =>
              /\ Has(user_data[o], "temp_number")
              /\ isdigit(user_data[o]["temp_number"])
        /\ add_conv[o] # WAITING_FOR_NAME => ~Has(user_data[o], "temp_number")

\* Values of order_by a caller may hand to get_students.
OrderInputs == allowed_orders \cup {"created_at", "", "student_number; DROP TABLE students"}

\* C17: the remembered sort order of every owner is one of the two allowed
\* values whatever payloads were pressed; the order /list and the buttons
\* pass to get_students is one of the two, and get_students puts any other
\* value to "student_number" before it builds the query.
C17_SortOrderAllowed ==
    /\ \A o \in Owners :
          /\ Has(user_data[o], "list_sort_order") =>
                user_data[o]["list_sort_order"] \in allowed_orders
          /\ current_sort_order(user_data[o]) \in allowed_orders
          /\ \A d \in ButtonData :
                /\ new_sort_order(user_data[o], d) \in allowed_orders
                /\ current_sort_order(list_button_user_data(user_data[o], d)) \in allowed_orders
    /\ \A order_by \in OrderInputs :
          /\ coerce_order(order_by) \in allowed_orders
          /\ order_by \in allowed_orders => coerce_order(order_by) = order_by
          /\ order_by \notin allowed_orders => coerce_order(order_by) = "student_number"

C17_Witness ==
    \E o \in Owners :
        /\ Has(user_data[o], "list_sort_order")
        /\ user_data[o]["list_sort_order"] = "student_number"

\* An update of owner o that the store is to be left alone by.
ReadOnlyEvent(o) ==
    \/ CmdStart(o) \/ CmdHelp(o) \/ CmdHello(o)
    \/ CmdAdd(o) \/ CmdDelete(o) \/ CmdCancel(o)
    \/ (add_conv[o] = WAITING_FOR_NUMBER /\ \E t \in Texts : Text(o, t))
    \/ CmdList(o)
    \/ \E q \in FindArgs : CmdFind(o, q)
    \/ \E d \in ButtonData : Button(o, d)

\* /list, /find or a press of a sort button by owner o.
ListingEvent(o) ==
    \/ CmdList(o)
    \/ \E q \in FindArgs : CmdFind(o, q)
    \/ \E d \in ButtonData : Button(o, d)

\* A step that changes a conversation state, a pending number or a
\* candidate set.
TransientChanged ==
    \/ add_conv' # add_conv
    \/ delete_conv' # delete_conv
    \/ /\ user_data' # user_data
       /\ \E o \in Owners :
            Del(user_data'[o], "list_sort_order") # Del(user_data[o], "list_sort_order")

\* C18: a step that changes the table is the name step of the add flow
\* (one upsert of the pending number), the identifier step of the delete
\* flow with exactly one match, or the confirmation of a candidate (one
\* delete); /start, /help, /hello, /add, /delete, the number step, /cancel,
\* /list, /find and the sort buttons never change it; /list, /find and the
\* sort buttons change neither a conversation state nor a pending number or
\* candidate set, and a press changes no sort order but the presser's.
C18_Frame ==
    [][/\ students' # students =>
            /\ \A o \in Owners : ~ReadOnlyEvent(o)
            /\ \E o \in Owners, t \in Texts :
                  /\ \/ /\ add_conv[o] = WAITING_FOR_NAME
                        /\ Has(user_data[o], "temp_number")
                        /\ students' = add_student(students, o, user_data[o]["temp_number"], t)
                     \/ /\ add_conv[o] = END
                        /\ delete_conv[o] = WAITING_FOR_DELETE_IDENTIFIER
                        /\ Cardinality(find_students(students, o, t)) = 1
                        /\ students' = students \ find_students(students, o, t)
                     \/ /\ add_conv[o] = END
                        /\ delete_conv[o] = WAITING_FOR_DELETE_CONFIRMATION_NUMBER
                        /\ t \in DOMAIN Get(user_data[o], "delete_candidates", <<>>)
                        /\ Cardinality(KeyRows(students, o, t)) = 1
                        /\ students' = students \ KeyRows(students, o, t)
                  /\ Text(o, t)
       /\ TransientChanged => \A o \in Owners : ~ListingEvent(o)
       /\ user_data' # user_data =>
            \A b \in Owners :
                current_sort_order(user_data'[b]) # current_sort_order(user_data[b]) =>
                    \A o \in Owners \ {b}, d \in ButtonData : ~Button(o, d)
    ]_vars

C18_Witness ==
    \E o \in Owners :
        /\ Has(user_data[o], "list_sort_order")
        /\ Has(user_data[o], "delete_candidates")
        /\ add_conv[o] = WAITING_FOR_NAME
        /\ Has(user_data[o], "temp_number")

\* C19: an owner with no conversation in progress has no pending number
\* and no delete candidates.
C19_IdleClean ==
    \A o \in Owners :
        Idle(o) =>
            /\ ~Has(user_data[o], "temp_number")
            /\ ~Has(user_data[o], "delete_candidates")

C19_Witness ==
    \E o \in Owners :
        /\ reply = "cancelled"
        /\ Idle(o)
        /\ Cardinality(RowsOf(students, o)) >= 2
        /\ user_data[o] = <<>>

\* C20: every stored number is a non-empty string of digits, and so is
\* every number of a stored candidate set.
C20_DigitNumbers ==
    /\ \A r \in students : isdigit(r.student_number)
    /\ \A o \in Owners :
          Has(user_data[o], "delete_candidates") =>
              \A n \in DOMAIN user_data[o]["delete_candidates"] : isdigit(n)

C20_Witness ==
    \E o \in Owners :
        /\ Has(user_data[o], "delete_candidates")
        /\ DOMAIN user_data[o]["delete_candidates"] =
                {r.student_number : r \in RowsOf(students, o)}
        /\ Cardinality(RowsOf(students, o)) = 2

====
